---- MODULE Spec2Model ----
(***************************************************************************)
(* Applications manager of sn-0217/code-repo-connect.                      *)
(*                                                                         *)
(* Three list views are modelled, selected by `variant`:                   *)
(*   "inline"  src/src/components/ApplicationsManager.tsx lines 25-435     *)
(*             (table with an inline row editor),                          *)
(*   "table"   src/src/components/ApplicationsManager.tsx lines 462-759    *)
(*             (table, edits through EditApplicationDialog with change     *)
(*             tracking, src/unnamed/part_000 lines 766-981),              *)
(*   "card"    src/unnamed/part_000 lines 32-480 (card grid, Add-New,      *)
(*             edits through EditApplicationDialog with isFormValid,       *)
(*             src/unnamed/part_000 lines 519-728).                        *)
(*                                                                         *)
(* A JavaScript string is a sequence of one-character strings.             *)
(***************************************************************************)
EXTENDS Integers, Sequences, FiniteSets, TLC

\* ------------------------------------------------------------ bounds
MaxTextLen == 3    \* longest hosts text typed under SpecHosts
MaxHostLen == 2    \* longest host string of a loaded record under SpecHosts
MaxHosts == 2      \* longest hosts list of a loaded record under SpecHosts
MaxEdits == 2      \* field edits per edit session
MaxInflight == 2   \* requests awaiting their response at once
MaxApps == 3       \* longest list Add-New may produce
MaxOps == 2        \* saves, deletes, toggles and discards the user starts

\* ------------------------------------------------------------ strings
Separators == {",", "\n"}
Whitespace == {" ", "\n"}

RECURSIVE trimStart(_)
trimStart(s) ==
  IF s # <<>> /\ Head(s) \in Whitespace THEN trimStart(Tail(s)) ELSE s

RECURSIVE trimEnd(_)
trimEnd(s) ==
  IF s # <<>> /\ s[Len(s)] \in Whitespace
  THEN trimEnd(SubSeq(s, 1, Len(s) - 1))
  ELSE s

\* String.prototype.trim
trim(s) == trimEnd(trimStart(s))

\* a split that knows the comma only
RECURSIVE splitOnComma(_, _)
splitOnComma(text, cur) ==
  IF text = <<>> THEN <<cur>>
  ELSE IF Head(text) = ","
       THEN <<cur>> \o splitOnComma(Tail(text), <<>>)
       ELSE splitOnComma(Tail(text), Append(cur, Head(text)))

\* value.split(/[,\n]/): every separator character ends a token
RECURSIVE splitEach(_, _)
splitEach(text, cur) ==
  IF text = <<>> THEN <<cur>>
  ELSE IF Head(text) \in Separators
       THEN <<cur>> \o splitEach(Tail(text), <<>>)
       ELSE splitEach(Tail(text), Append(cur, Head(text)))

RECURSIVE skipSeparators(_)
skipSeparators(text) ==
  IF text # <<>> /\ Head(text) \in Separators
  THEN skipSeparators(Tail(text))
  ELSE text

\* value.split(/[,\n]+/): a whole run of separator characters ends a token
RECURSIVE splitRuns(_, _)
splitRuns(text, cur) ==
  IF text = <<>> THEN <<cur>>
  ELSE IF Head(text) \in Separators
       THEN <<cur>> \o splitRuns(skipSeparators(text), <<>>)
       ELSE splitRuns(Tail(text), Append(cur, Head(text)))

\* .map(host => host.trim())
RECURSIVE mapTrim(_)
mapTrim(tokens) ==
  IF tokens = <<>> THEN <<>>
  ELSE <<trim(Head(tokens))>> \o mapTrim(Tail(tokens))

\* a filter that drops nothing
keepAll(tokens) == tokens

\* .filter(host => host.length > 0)
RECURSIVE filterNonEmpty(_)
filterNonEmpty(tokens) ==
  IF tokens = <<>> THEN <<>>
  ELSE IF Len(Head(tokens)) > 0
       THEN <<Head(tokens)>> \o filterNonEmpty(Tail(tokens))
       ELSE filterNonEmpty(Tail(tokens))

\* the inline editor and the change-tracking dialog
parseHostsEach(value) == filterNonEmpty(mapTrim(splitEach(value, <<>>)))

\* the dialog with isFormValid
parseHostsRuns(value) == filterNonEmpty(mapTrim(splitRuns(value, <<>>)))

\* a join that separates the hosts by a space
RECURSIVE joinWithSpace(_)
joinWithSpace(hosts) ==
  IF hosts = <<>> THEN <<>>
  ELSE IF Len(hosts) = 1 THEN Head(hosts)
       ELSE Head(hosts) \o <<" ">> \o joinWithSpace(Tail(hosts))

\* hosts.join('\n')
RECURSIVE joinHosts(_)
joinHosts(hosts) ==
  IF hosts = <<>> THEN <<>>
  ELSE IF Len(hosts) = 1 THEN Head(hosts)
       ELSE Head(hosts) \o <<"\n">> \o joinHosts(Tail(hosts))

\* all strings over cs of length at most n
RECURSIVE StringsUpTo(_, _)
StringsUpTo(cs, n) ==
  IF n = 0 THEN {<<>>}
  ELSE LET shorter == StringsUpTo(cs, n - 1)
       IN shorter \cup {Append(s, c) : s \in shorter, c \in cs}

\* all sequences over S of length at most n
RECURSIVE ListsUpTo(_, _)
ListsUpTo(S, n) ==
  IF n = 0 THEN {<<>>}
  ELSE LET shorter == ListsUpTo(S, n - 1)
       IN shorter \cup {Append(l, x) : l \in shorter, x \in S}

\* ------------------------------------------------------------ records
Variants == {"inline", "table", "card"}

\* editingApp === null; no string is this sequence
Null == <<"null">>
\* editForm === null, editDialog.application === null
NoForm == [null |-> TRUE]

\* interface AppData; an optional field that is absent holds "undefined"
AppData(name, hosts, disabled, appStatus) ==
  [appName |-> name, changeNumber |-> <<"C", "1">>,
   applicationOwner |-> <<"o">>, maintenanceWindow |-> <<"w">>,
   changeDescription |-> <<"d">>, infrastructureImpact |-> <<"i">>,
   hosts |-> hosts, disabled |-> disabled, appStatus |-> appStatus]

\* JavaScript truthiness of the optional fields and of a string
falsy(v) == v \in {"undefined", "false"}
truthyString(s) == s # Null /\ s # <<>>

\* the values the backend may hold for (disabled, appStatus)
StatusPairs ==
  { <<"undefined", "undefined">>, <<"true", "undefined">>,
    <<"false", "enabled">>, <<"true", "disabled">> }

NameA == <<"a">>
NameB == <<"b">>
HostsA == << <<"h", "1">>, <<"h", "2">> >>
HostsB == << <<"h", "9">> >>
\* a stored hosts list whose only entry is a space
HostsBlank == << <<" ">> >>

\* the record lists the backend may hold when the component mounts
InitialLists ==
  {<<>>}
  \cup {<<AppData(NameA, HostsA, s[1], s[2])>> : s \in StatusPairs}
  \cup {<<AppData(NameA, HostsA, s[1], s[2]),
          AppData(NameB, HostsB, "undefined", "undefined")>> : s \in StatusPairs}
  \cup {<<AppData(NameA, HostsBlank, "undefined", "undefined")>>}

\* the text fields the user types into; the four free-form fields go through
\* the same handleFormChange as these
EditedFields == {"appName", "changeNumber"}

\* what the user may type into a text field of the form
FieldInputs(field) ==
  IF field = "appName" THEN {<<>>, NameB} ELSE {<<" ">>, <<"C", "2">>}

\* what the user may type into the hosts textarea
SampleTexts ==
  { <<"h", "3", ",", " ", "h", "4", "\n", "h", "5">>,
    <<"h", "3", ",", ",", " ">> }

\* ------------------------------------------------------------ state
VARIABLES
  variant,              \* which list view is mounted
  backend,              \* the record list the Backend Gateway stores
  loadedAtMount,        \* the record list the backend held at mount
  applications,         \* useState<AppData[]>
  originalApplications, \* card: useState<AppData[]>
  isLoading,
  hasChanges,           \* card: unsaved-changes flag of the manager
  editingApp,           \* inline: string | null
  editForm,             \* inline editor's / dialog's working copy
  hasUnsavedChanges,    \* inline
  editDialog,           \* table, card: {isOpen, application, isNew}
  dialogHasChanges,     \* table: hasChanges of the change-tracking dialog
  deleteDialog,         \* {isOpen, appName}
  statusToggleDialog,   \* card: {isOpen, appName, newStatus}
  inflight,             \* requests sent whose response has not arrived
  hostsInput,           \* the text last given to handleHostsChange
  edits,                \* field edits made in the open edit session
  ops,                  \* saves, deletes, toggles and discards started so far
  toasts,               \* notifications shown by the latest step
  toggledOff            \* names disabled by a toggle and not deleted since

vars ==
  <<variant, backend, loadedAtMount, applications, originalApplications,
    isLoading,
    hasChanges, editingApp, editForm, hasUnsavedChanges, editDialog,
    dialogHasChanges, deleteDialog, statusToggleDialog, inflight, hostsInput,
    edits, ops, toasts, toggledOff>>

\* a request in flight together with what its handler captured before await
NoRequest ==
  [kind |-> "none", name |-> <<>>, body |-> <<>>, apps |-> <<>>,
   updatedApps |-> <<>>, origApps |-> <<>>, newStatus |-> "",
   form |-> NoForm, text |-> Null]

removeAt(seq, i) == SubSeq(seq, 1, i - 1) \o SubSeq(seq, i + 1, Len(seq))

\* useToastContext: a notification is its kind, title and message
showSuccess(title, message) == <<"success", title, message>>
\* an error path that reports success
reportSuccess(title, message) == <<"success", title, message>>
showError(title, message) == <<"error", title, message>>

\* `Application ${newStatus} successfully`
statusMessage(newStatus) ==
  IF newStatus = "enabled" THEN "Application enabled successfully"
  ELSE "Application disabled successfully"

ClosedEditDialog == [isOpen |-> FALSE, application |-> NoForm, isNew |-> FALSE]
ClosedDeleteDialog == [isOpen |-> FALSE, appName |-> <<>>]
ClosedToggleDialog == [isOpen |-> FALSE, appName |-> <<>>, newStatus |-> ""]

\* names of a list
names(apps) == {apps[i].appName : i \in DOMAIN apps}

\* applications.find(a => a.appName === appName); NoForm when there is none
find(apps, name) ==
  IF \E i \in DOMAIN apps : apps[i].appName = name
  THEN apps[CHOOSE i \in DOMAIN apps :
              /\ apps[i].appName = name
              /\ \A j \in DOMAIN apps : apps[j].appName = name => i <= j]
  ELSE NoForm

\* ------------------------------------------------------------ backend gateway
\* loadApps(): GET all records
loadApps == backend

\* POST /api/update-submission-config replaces the whole stored list
updateSubmissionConfig(body) == body

\* PUT /api/app/{name} replaces the stored record of that name
putApp(stored, name, record) ==
  [i \in DOMAIN stored |->
     IF stored[i].appName = name THEN record ELSE stored[i]]

\* ------------------------------------------------------------ list helpers
\* a load filter that lets every record through
allApps(apps) == apps

\* a display filter that drops the enabled records instead
filterDisabled(apps) == SelectSeq(apps, LAMBDA app : ~falsy(app.disabled))

\* apps.filter(app => !app.disabled)
filterEnabled(apps) == SelectSeq(apps, LAMBDA app : falsy(app.disabled))

\* a filter that keeps every record
keepApp(apps, name) == apps

\* applications.filter(app => app.appName !== deleteDialog.appName)
removeApp(apps, name) == SelectSeq(apps, LAMBDA app : app.appName # name)

\* applications.map(app => app.appName === updatedApp.appName ? updatedApp : app)
replaceApp(apps, updatedApp) ==
  [i \in DOMAIN apps |->
     IF apps[i].appName = updatedApp.appName THEN updatedApp ELSE apps[i]]

\* applications.map(app => app.appName === appName
\*                         ? { ...app, disabled: !app.disabled } : app)
flipDisabled(apps, name) ==
  [i \in DOMAIN apps |->
     IF apps[i].appName = name
     THEN [apps[i] EXCEPT !.disabled = IF falsy(@) THEN "true" ELSE "false"]
     ELSE apps[i]]

\* app.appStatus === 'enabled' || (!app.appStatus && !app.disabled)
isAppEnabled(app) ==
  app.appStatus = "enabled" \/ (app.appStatus = "undefined" /\ falsy(app.disabled))

\* a status change that writes appStatus and leaves `disabled` as it was
setAppStatusOnly(apps, name, newStatus) ==
  [i \in DOMAIN apps |->
     IF apps[i].appName = name
     THEN [apps[i] EXCEPT !.appStatus = newStatus]
     ELSE apps[i]]

\* applications.map(a => a.appName === appName
\*     ? { ...a, disabled: newStatus === 'disabled', appStatus: newStatus } : a)
setStatus(apps, name, newStatus) ==
  [i \in DOMAIN apps |->
     IF apps[i].appName = name
     THEN [apps[i] EXCEPT
             !.disabled = IF newStatus = "disabled" THEN "true" ELSE "false",
             !.appStatus = newStatus]
     ELSE apps[i]]

\* a change tracker that always reports changes
alwaysChanged(apps, origApps) == TRUE

\* a change tracking that never reports a difference
neverChanged(apps, origApps) == FALSE

\* card: JSON.stringify(applications) !== JSON.stringify(originalApplications)
changeTracking(apps, origApps) == apps # origApps

\* ------------------------------------------------------------ rendering
\* no modal dialog covers the page
pageInteractive ==
  /\ ~editDialog.isOpen
  /\ ~deleteDialog.isOpen
  /\ ~statusToggleDialog.isOpen

\* the rows (inline, table) or cards (card) are rendered
rowsShown ==
  /\ applications # <<>>
  /\ IF variant = "card" THEN ~(isLoading /\ ~hasChanges) ELSE ~isLoading

\* inline: the row of the record being edited, with its Save and Cancel buttons
editRowShown ==
  /\ variant = "inline"
  /\ rowsShown
  /\ editingApp \in names(applications)

\* the Edit / Disable / Delete buttons of a row can be clicked
rowButtonsEnabled ==
  /\ rowsShown
  /\ pageInteractive
  /\ variant = "inline" => editingApp = Null

formVars ==
  <<editingApp, editForm, hasUnsavedChanges, editDialog, dialogHasChanges,
    hostsInput, edits>>
listVars == <<applications, originalApplications, hasChanges>>

\* ------------------------------------------------------------ mount
Init ==
  /\ variant \in Variants
  /\ backend \in InitialLists
  /\ loadedAtMount = backend
  /\ applications = <<>>
  /\ originalApplications = <<>>
  /\ isLoading = TRUE
  /\ hasChanges = FALSE
  /\ editingApp = Null
  /\ editForm = NoForm
  /\ hasUnsavedChanges = FALSE
  /\ editDialog = ClosedEditDialog
  /\ dialogHasChanges = FALSE
  /\ deleteDialog = ClosedDeleteDialog
  /\ statusToggleDialog = ClosedToggleDialog
  /\ inflight = <<[NoRequest EXCEPT !.kind = "load"]>>
  /\ hostsInput = Null
  /\ edits = 0
  /\ ops = 0
  /\ toasts = <<>>
  /\ toggledOff = {}

\* fetchApplications after `await loadApps()`
fetchResponse(i, ok) ==
  /\ inflight[i].kind = "load"
  /\ inflight' = removeAt(inflight, i)
  /\ isLoading' = FALSE
  /\ IF ok
     THEN /\ applications' =
               IF variant = "card" THEN loadApps ELSE filterEnabled(loadApps)
          /\ originalApplications' =
               IF variant = "card" THEN loadApps ELSE originalApplications
          /\ hasChanges' =
               IF variant = "card"
               THEN changeTracking(applications', originalApplications')
               ELSE hasChanges
          /\ toasts' = <<>>
     ELSE /\ UNCHANGED listVars
          /\ toasts' = <<showError("Failed to Load Applications", "Unable to fetch application data.")>>
  /\ UNCHANGED <<variant, loadedAtMount, ops, backend, formVars, deleteDialog, statusToggleDialog,
                 toggledOff>>

\* ------------------------------------------------------------ delete
handleDeleteClick(appName) ==
  /\ rowButtonsEnabled
  /\ appName \in names(applications)
  /\ deleteDialog' = [isOpen |-> TRUE, appName |-> appName]
  /\ toasts' = <<>>
  /\ UNCHANGED <<variant, loadedAtMount, ops, backend, listVars, isLoading, formVars,
                 statusToggleDialog, inflight, toggledOff>>

\* DeleteConfirmationDialog onClose
closeDeleteDialog ==
  /\ deleteDialog.isOpen
  /\ deleteDialog' = ClosedDeleteDialog
  /\ toasts' = <<>>
  /\ UNCHANGED <<variant, loadedAtMount, ops, backend, listVars, isLoading, formVars,
                 statusToggleDialog, inflight, toggledOff>>

\* a delete that shortens the local list before the backend has answered
deleteOptimistic ==
  /\ variant \in {"inline", "table"}
  /\ deleteDialog.isOpen
  /\ Len(inflight) < MaxInflight
  /\ LET updatedApps == removeApp(applications, deleteDialog.appName)
         req == [NoRequest EXCEPT !.kind = "delete",
                                  !.name = deleteDialog.appName,
                                  !.body = updatedApps,
                                  !.apps = applications,
                                  !.updatedApps = updatedApps]
     IN /\ inflight' = Append(inflight, req)
        /\ applications' = updatedApps
        /\ toasts' = <<>>
  /\ ops < MaxOps
  /\ ops' = ops + 1
  /\ UNCHANGED <<variant, loadedAtMount, backend, originalApplications, hasChanges,
                 isLoading, formVars, deleteDialog, statusToggleDialog, toggledOff>>

\* inline, table: handleDeleteConfirm up to `await fetch(...)`
handleDeleteConfirm ==
  /\ variant \in {"inline", "table"}
  /\ deleteDialog.isOpen
  /\ Len(inflight) < MaxInflight
  /\ LET updatedApps == removeApp(applications, deleteDialog.appName)
         req == [NoRequest EXCEPT !.kind = "delete",
                                  !.name = deleteDialog.appName,
                                  !.body = updatedApps,
                                  !.apps = applications,
                                  !.updatedApps = updatedApps]
     IN /\ inflight' = Append(inflight, req)
        /\ toasts' = <<>>
  /\ ops < MaxOps
  /\ ops' = ops + 1
  /\ UNCHANGED <<variant, loadedAtMount, backend, listVars, isLoading, formVars, deleteDialog,
                 statusToggleDialog, toggledOff>>

\* inline, table: handleDeleteConfirm after `await fetch(...)`
deleteResponse(i, ok) ==
  /\ inflight[i].kind = "delete"
  /\ inflight' = removeAt(inflight, i)
  /\ deleteDialog' = ClosedDeleteDialog
  /\ IF ok
     THEN /\ backend' = updateSubmissionConfig(inflight[i].body)
          /\ applications' = inflight[i].updatedApps
          /\ toggledOff' = toggledOff \ {inflight[i].name}
          /\ toasts' = <<showSuccess("Success", "Application deleted successfully")>>
     ELSE /\ UNCHANGED <<backend, applications, toggledOff>>
          /\ toasts' = <<showError("Delete Failed", "Failed to delete the application.")>>
  /\ UNCHANGED <<variant, loadedAtMount, ops, originalApplications, hasChanges, isLoading, formVars,
                 statusToggleDialog>>

\* a card delete that also submits the shortened list at once
deleteAndSubmit ==
  /\ variant = "card"
  /\ deleteDialog.isOpen
  /\ LET updatedApps == removeApp(applications, deleteDialog.appName)
         req == [NoRequest EXCEPT !.kind = "saveAll",
                                  !.body = updatedApps,
                                  !.apps = updatedApps]
     IN /\ applications' = updatedApps
        /\ hasChanges' = changeTracking(updatedApps, originalApplications)
        /\ inflight' = Append(inflight, req)
        /\ toasts' = <<showSuccess("Success", "Application deleted successfully")>>
  /\ deleteDialog' = ClosedDeleteDialog
  /\ toggledOff' = toggledOff \ {deleteDialog.appName}
  /\ ops < MaxOps
  /\ ops' = ops + 1
  /\ UNCHANGED <<variant, loadedAtMount, backend, originalApplications, isLoading, formVars,
                 statusToggleDialog>>

\* card: handleDeleteConfirm
handleDeleteConfirmCard ==
  /\ variant = "card"
  /\ deleteDialog.isOpen
  /\ LET updatedApps == removeApp(applications, deleteDialog.appName)
     IN /\ applications' = updatedApps
        /\ hasChanges' = changeTracking(updatedApps, originalApplications)
        /\ toasts' = <<showSuccess("Success", "Application deleted successfully")>>
  /\ deleteDialog' = ClosedDeleteDialog
  /\ toggledOff' = toggledOff \ {deleteDialog.appName}
  /\ ops < MaxOps
  /\ ops' = ops + 1
  /\ UNCHANGED <<variant, loadedAtMount, backend, originalApplications, isLoading, formVars,
                 statusToggleDialog, inflight>>

\* ------------------------------------------------------------ status toggle
\* inline, table: const app = applications.find(a => a.appName === appName);
\* const newStatus = app?.disabled ? 'enabled' : 'disabled'
toggledMessage(apps, appName) ==
  LET app == find(apps, appName)
  IN statusMessage(IF app # NoForm /\ ~falsy(app.disabled)
                   THEN "enabled" ELSE "disabled")

\* inline, table: handleToggleStatus up to `await fetch(...)`
handleToggleStatus(appName) ==
  /\ variant \in {"inline", "table"}
  /\ rowButtonsEnabled
  /\ appName \in names(applications)
  /\ Len(inflight) < MaxInflight
  /\ IF variant = "inline" /\ truthyString(editingApp) /\ hasUnsavedChanges
     THEN /\ toasts' = <<showError("Unsaved Changes", "Please save your changes first.")>>
          /\ UNCHANGED inflight
     ELSE LET updatedApps == flipDisabled(applications, appName)
              req == [NoRequest EXCEPT !.kind = "toggle",
                                       !.name = appName,
                                       !.body = updatedApps,
                                       !.apps = applications,
                                       !.updatedApps = filterEnabled(updatedApps)]
          IN /\ inflight' = Append(inflight, req)
             /\ toasts' = <<>>
  /\ ops < MaxOps
  /\ ops' = ops + 1
  /\ UNCHANGED <<variant, loadedAtMount, backend, listVars, isLoading, formVars, deleteDialog,
                 statusToggleDialog, toggledOff>>

\* inline, table: handleToggleStatus after `await fetch(...)`
toggleResponse(i, ok) ==
  /\ inflight[i].kind = "toggle"
  /\ inflight' = removeAt(inflight, i)
  /\ IF ok
     THEN /\ backend' = updateSubmissionConfig(inflight[i].body)
          /\ applications' = inflight[i].updatedApps
          /\ toggledOff' =
               IF find(inflight[i].body, inflight[i].name).disabled = "true"
               THEN toggledOff \cup {inflight[i].name}
               ELSE toggledOff \ {inflight[i].name}
          /\ toasts' = <<showSuccess("Status Updated", toggledMessage(inflight[i].apps, inflight[i].name))>>
     ELSE /\ UNCHANGED <<backend, applications, toggledOff>>
          /\ toasts' = <<showError("Update Failed", "Failed to update application status.")>>
  /\ UNCHANGED <<variant, loadedAtMount, ops, originalApplications, hasChanges, isLoading, formVars,
                 deleteDialog, statusToggleDialog>>

\* card: handleToggleStatusClick
handleToggleStatusClick(appName) ==
  /\ variant = "card"
  /\ rowButtonsEnabled
  /\ appName \in names(applications)
  /\ LET app == find(applications, appName)
         newStatus == IF isAppEnabled(app) THEN "disabled" ELSE "enabled"
     IN statusToggleDialog' =
          [isOpen |-> TRUE, appName |-> appName, newStatus |-> newStatus]
  /\ toasts' = <<>>
  /\ UNCHANGED <<variant, loadedAtMount, ops, backend, listVars, isLoading, formVars, deleteDialog,
                 inflight, toggledOff>>

\* card: the status dialog's Cancel button and onOpenChange
closeStatusToggleDialog ==
  /\ statusToggleDialog.isOpen
  /\ statusToggleDialog' = ClosedToggleDialog
  /\ toasts' = <<>>
  /\ UNCHANGED <<variant, loadedAtMount, ops, backend, listVars, isLoading, formVars, deleteDialog,
                 inflight, toggledOff>>

\* card: handleToggleStatusConfirm up to `await fetch(...)`
handleToggleStatusConfirm ==
  /\ variant = "card"
  /\ statusToggleDialog.isOpen
  /\ Len(inflight) < MaxInflight
  /\ LET appName == statusToggleDialog.appName
         newStatus == statusToggleDialog.newStatus
         app == find(applications, appName)
     IN IF app = NoForm
        THEN /\ statusToggleDialog' = ClosedToggleDialog
             /\ toasts' = <<>>
             /\ UNCHANGED inflight
        ELSE LET sent == [app EXCEPT
                            !.appStatus = newStatus,
                            !.disabled = IF newStatus = "disabled"
                                         THEN "true" ELSE "false"]
                 req == [NoRequest EXCEPT !.kind = "put",
                                          !.name = appName,
                                          !.body = <<sent>>,
                                          !.apps = applications,
                                          !.origApps = originalApplications,
                                          !.newStatus = newStatus]
             IN /\ inflight' = Append(inflight, req)
                /\ toasts' = <<>>
                /\ UNCHANGED statusToggleDialog
  /\ ops < MaxOps
  /\ ops' = ops + 1
  /\ UNCHANGED <<variant, loadedAtMount, backend, listVars, isLoading, formVars, deleteDialog,
                 toggledOff>>

\* card: handleToggleStatusConfirm after `await fetch(...)`
putResponse(i, ok) ==
  /\ inflight[i].kind = "put"
  /\ inflight' = removeAt(inflight, i)
  /\ statusToggleDialog' = ClosedToggleDialog
  /\ IF ok
     THEN /\ backend' = putApp(backend, inflight[i].name, inflight[i].body[1])
          /\ applications' =
               setStatus(inflight[i].apps, inflight[i].name, inflight[i].newStatus)
          /\ originalApplications' =
               setStatus(inflight[i].origApps, inflight[i].name,
                         inflight[i].newStatus)
          /\ hasChanges' = changeTracking(applications', originalApplications')
          /\ toggledOff' =
               IF inflight[i].newStatus = "disabled"
               THEN toggledOff \cup {inflight[i].name}
               ELSE toggledOff \ {inflight[i].name}
          /\ toasts' = <<showSuccess("Success", statusMessage(inflight[i].newStatus))>>
     ELSE /\ UNCHANGED <<backend, listVars, toggledOff>>
          /\ toasts' = <<showError("Update Failed", "Failed to update application status.")>>
  /\ UNCHANGED <<variant, loadedAtMount, ops, isLoading, formVars, deleteDialog>>

\* ------------------------------------------------------------ inline editor
\* inline: handleEdit
handleEditInline(i) ==
  /\ variant = "inline"
  /\ rowButtonsEnabled
  /\ i \in DOMAIN applications
  /\ IF hasUnsavedChanges
     THEN /\ toasts' = <<showError("Unsaved Changes", "Please save or cancel your current changes first.")>>
          /\ UNCHANGED <<editingApp, editForm, edits, hostsInput>>
     ELSE /\ editingApp' = applications[i].appName
          /\ editForm' = applications[i]
          /\ edits' = 0
          /\ hostsInput' = Null
          /\ toasts' = <<>>
  /\ UNCHANGED <<variant, loadedAtMount, ops, backend, listVars, isLoading, hasUnsavedChanges,
                 editDialog, dialogHasChanges, deleteDialog, statusToggleDialog,
                 inflight, toggledOff>>

\* inline: handleFormChange
handleFormChangeInline(field, value) ==
  /\ editRowShown
  /\ editForm # NoForm
  /\ edits < MaxEdits
  /\ editForm' = [editForm EXCEPT ![field] = value]
  /\ hasUnsavedChanges' = TRUE
  /\ edits' = edits + 1
  /\ toasts' = <<>>
  /\ UNCHANGED <<variant, loadedAtMount, ops, backend, listVars, isLoading, editingApp, editDialog,
                 dialogHasChanges, hostsInput, deleteDialog, statusToggleDialog,
                 inflight, toggledOff>>

\* inline: handleHostsChange
handleHostsChangeInline(value) ==
  /\ variant = "inline"
  /\ rowsShown
  /\ truthyString(editingApp)
  /\ editForm # NoForm
  /\ edits < MaxEdits
  /\ editForm' = [editForm EXCEPT !.hosts = parseHostsEach(value)]
  /\ hasUnsavedChanges' = TRUE
  /\ hostsInput' = value
  /\ edits' = edits + 1
  /\ toasts' = <<>>
  /\ UNCHANGED <<variant, loadedAtMount, ops, backend, listVars, isLoading, editingApp, editDialog,
                 dialogHasChanges, deleteDialog, statusToggleDialog, inflight,
                 toggledOff>>

\* inline: handleCancel
handleCancel ==
  /\ editRowShown
  /\ editingApp' = Null
  /\ editForm' = NoForm
  /\ hasUnsavedChanges' = FALSE
  /\ toasts' = <<>>
  /\ hostsInput' = Null
  /\ edits' = 0
  /\ UNCHANGED <<variant, loadedAtMount, ops, backend, listVars, isLoading, editDialog,
                 dialogHasChanges, deleteDialog,
                 statusToggleDialog, inflight, toggledOff>>

\* inline: handleSave up to `await fetch(...)`
handleSaveInline ==
  /\ editRowShown
  /\ editForm # NoForm
  /\ Len(inflight) < MaxInflight
  /\ LET updatedApps == replaceApp(applications, editForm)
         req == [NoRequest EXCEPT !.kind = "save",
                                  !.name = editingApp,
                                  !.body = updatedApps,
                                  !.apps = applications,
                                  !.updatedApps = updatedApps,
                                  !.form = editForm,
                                  !.text = hostsInput]
     IN /\ inflight' = Append(inflight, req)
        /\ toasts' = <<>>
  /\ isLoading' = TRUE
  /\ ops < MaxOps
  /\ ops' = ops + 1
  /\ UNCHANGED <<variant, loadedAtMount, backend, listVars, formVars, deleteDialog,
                 statusToggleDialog, toggledOff>>

\* inline: handleSave after `await fetch(...)`
saveResponseInline(i, ok) ==
  /\ variant = "inline"
  /\ inflight[i].kind = "save"
  /\ inflight' = removeAt(inflight, i)
  /\ isLoading' = FALSE
  /\ editingApp' = Null
  /\ editForm' = NoForm
  /\ IF ok
     THEN /\ backend' = updateSubmissionConfig(inflight[i].body)
          /\ applications' = inflight[i].updatedApps
          /\ hasUnsavedChanges' = FALSE
          /\ toasts' = <<showSuccess("Success", "Application updated successfully")>>
     ELSE /\ UNCHANGED <<backend, applications, hasUnsavedChanges>>
          /\ toasts' = <<showError("Update Failed", "Failed to update the application.")>>
  /\ hostsInput' = Null
  /\ edits' = 0
  /\ UNCHANGED <<variant, loadedAtMount, ops, originalApplications, hasChanges, editDialog,
                 dialogHasChanges, deleteDialog,
                 statusToggleDialog, toggledOff>>

\* the dialog's useEffect(() => { if (application) setEditForm({...application}) },
\* [application]): it runs when the `application` prop changes
applicationEffect(previous, application, form) ==
  IF application # previous /\ application # NoForm THEN application ELSE form

\* an onClose that hides the dialog and keeps its `application`
closeKeepingApplication ==
  /\ editDialog.isOpen
  /\ editDialog' = [editDialog EXCEPT !.isOpen = FALSE]
  /\ dialogHasChanges' = FALSE
  /\ toasts' = <<>>
  /\ hostsInput' = Null
  /\ edits' = 0
  /\ UNCHANGED <<variant, loadedAtMount, ops, backend, listVars, isLoading, editingApp,
                 editForm, hasUnsavedChanges, deleteDialog, statusToggleDialog,
                 inflight, toggledOff>>

\* ------------------------------------------------------------ edit dialog
\* table, card: handleEdit, and the dialog's useEffect on [application]
handleEdit(i) ==
  /\ variant \in {"table", "card"}
  /\ rowButtonsEnabled
  /\ i \in DOMAIN applications
  /\ editDialog' =
       [isOpen |-> TRUE, application |-> applications[i], isNew |-> FALSE]
  /\ editForm' = applicationEffect(editDialog.application, applications[i], editForm)
  /\ dialogHasChanges' = FALSE
  /\ edits' = 0
  /\ hostsInput' = Null
  /\ toasts' = <<>>
  /\ UNCHANGED <<variant, loadedAtMount, ops, backend, listVars, isLoading, editingApp,
                 hasUnsavedChanges, deleteDialog, statusToggleDialog, inflight,
                 toggledOff>>

\* card: the blank template of handleAddNew
newApp ==
  [appName |-> <<>>, changeNumber |-> <<>>, applicationOwner |-> <<>>,
   maintenanceWindow |-> <<>>, changeDescription |-> <<>>,
   infrastructureImpact |-> <<>>, hosts |-> <<>>, disabled |-> "false",
   appStatus |-> "enabled"]

\* card: handleAddNew, and the dialog's useEffect on [application, isNew]
handleAddNew ==
  /\ variant = "card"
  /\ pageInteractive
  /\ Len(applications) < MaxApps
  /\ editDialog' = [isOpen |-> TRUE, application |-> newApp, isNew |-> TRUE]
  /\ editForm' = applicationEffect(editDialog.application, newApp, editForm)
  /\ edits' = 0
  /\ hostsInput' = Null
  /\ toasts' = <<>>
  /\ UNCHANGED <<variant, loadedAtMount, ops, backend, listVars, isLoading, editingApp,
                 hasUnsavedChanges, dialogHasChanges, deleteDialog,
                 statusToggleDialog, inflight, toggledOff>>

\* a field edit that writes through to the record the dialog was opened on
changeInPlace(field, value) ==
  /\ editDialog.isOpen
  /\ editForm # NoForm
  /\ edits < MaxEdits
  /\ editForm' = [editForm EXCEPT ![field] = value]
  /\ applications' =
       [i \in DOMAIN applications |->
          IF applications[i] = editDialog.application
          THEN editForm' ELSE applications[i]]
  /\ dialogHasChanges' = IF variant = "table" THEN TRUE ELSE dialogHasChanges
  /\ edits' = edits + 1
  /\ toasts' = <<>>
  /\ UNCHANGED <<variant, loadedAtMount, ops, backend, originalApplications, hasChanges,
                 isLoading, editingApp, hasUnsavedChanges, editDialog,
                 hostsInput, deleteDialog, statusToggleDialog, inflight,
                 toggledOff>>

\* EditApplicationDialog.handleFormChange (both dialogs)
handleFormChange(field, value) ==
  /\ editDialog.isOpen
  /\ editForm # NoForm
  /\ edits < MaxEdits
  /\ editForm' = [editForm EXCEPT ![field] = value]
  /\ dialogHasChanges' = IF variant = "table" THEN TRUE ELSE dialogHasChanges
  /\ edits' = edits + 1
  /\ toasts' = <<>>
  /\ UNCHANGED <<variant, loadedAtMount, ops, backend, listVars, isLoading, editingApp,
                 hasUnsavedChanges, editDialog, hostsInput, deleteDialog,
                 statusToggleDialog, inflight, toggledOff>>

\* EditApplicationDialog.handleHostsChange: the change-tracking dialog splits
\* on /[,\n]/, the dialog with isFormValid on /[,\n]+/
handleHostsChange(value) ==
  /\ editDialog.isOpen
  /\ editForm # NoForm
  /\ edits < MaxEdits
  /\ editForm' =
       [editForm EXCEPT !.hosts = IF variant = "table"
                                  THEN parseHostsEach(value)
                                  ELSE parseHostsRuns(value)]
  /\ dialogHasChanges' = IF variant = "table" THEN TRUE ELSE dialogHasChanges
  /\ hostsInput' = value
  /\ edits' = edits + 1
  /\ toasts' = <<>>
  /\ UNCHANGED <<variant, loadedAtMount, ops, backend, listVars, isLoading, editingApp,
                 hasUnsavedChanges, editDialog, deleteDialog,
                 statusToggleDialog, inflight, toggledOff>>

\* EditApplicationDialog.handleClose (both dialogs) with the manager's onClose
handleClose ==
  /\ editDialog.isOpen
  /\ editDialog' = ClosedEditDialog
  /\ dialogHasChanges' = FALSE
  /\ toasts' = <<>>
  /\ hostsInput' = Null
  /\ edits' = 0
  /\ UNCHANGED <<variant, loadedAtMount, ops, backend, listVars, isLoading, editingApp, editForm,
                 hasUnsavedChanges, deleteDialog,
                 statusToggleDialog, inflight, toggledOff>>

\* table: the change-tracking dialog's handleSave calling the manager's
\* handleSave, up to `await fetch(...)`
handleSaveTable ==
  /\ variant = "table"
  /\ editDialog.isOpen
  /\ ~isLoading
  /\ editForm # NoForm /\ dialogHasChanges
  /\ Len(inflight) < MaxInflight
  /\ LET updatedApps == replaceApp(applications, editForm)
         req == [NoRequest EXCEPT !.kind = "save",
                                  !.name = editDialog.application.appName,
                                  !.body = updatedApps,
                                  !.apps = applications,
                                  !.updatedApps = updatedApps,
                                  !.form = editForm,
                                  !.text = hostsInput]
     IN /\ inflight' = Append(inflight, req)
        /\ toasts' = <<>>
  /\ isLoading' = TRUE
  /\ ops < MaxOps
  /\ ops' = ops + 1
  /\ UNCHANGED <<variant, loadedAtMount, backend, listVars, formVars, deleteDialog,
                 statusToggleDialog, toggledOff>>

\* table: the manager's handleSave after `await fetch(...)`, then the dialog's
\* handleSave after `await onSave(editForm)`
saveResponseTable(i, ok) ==
  /\ variant = "table"
  /\ inflight[i].kind = "save"
  /\ inflight' = removeAt(inflight, i)
  /\ isLoading' = FALSE
  /\ dialogHasChanges' = FALSE
  /\ editDialog' = ClosedEditDialog
  /\ IF ok
     THEN /\ backend' = updateSubmissionConfig(inflight[i].body)
          /\ applications' = inflight[i].updatedApps
          /\ toasts' = <<showSuccess("Success", "Application updated successfully")>>
     ELSE /\ UNCHANGED <<backend, applications>>
          /\ toasts' = <<showError("Update Failed", "Failed to update the application.")>>
  /\ hostsInput' = Null
  /\ edits' = 0
  /\ UNCHANGED <<variant, loadedAtMount, ops, originalApplications, hasChanges, editingApp, editForm,
                 hasUnsavedChanges, deleteDialog,
                 statusToggleDialog, toggledOff>>

\* a validity check that looks at the change number only
changeNumberFilled(form) == trim(form.changeNumber) # <<>>

\* card: const isFormValid of the dialog
isFormValid(form) ==
  trim(form.appName) # <<>> /\ trim(form.changeNumber) # <<>>

\* card: the dialog's Save / Create button, disabled={isLoading || !isFormValid}
saveDisabled == isLoading \/ ~isFormValid(editForm)

\* card: the dialog's handleSave calling the manager's handleSave, then onClose
handleSaveCard ==
  /\ variant = "card"
  /\ editDialog.isOpen
  /\ editForm # NoForm
  /\ ~saveDisabled
  /\ LET updatedApps == IF editDialog.isNew
                        THEN Append(applications, editForm)
                        ELSE replaceApp(applications, editForm)
     IN /\ applications' = updatedApps
        /\ hasChanges' = changeTracking(updatedApps, originalApplications)
        /\ toasts' = <<showSuccess("Success", IF editDialog.isNew
                                             THEN "Application added successfully"
                                             ELSE "Application updated successfully")>>
  /\ editDialog' = ClosedEditDialog
  /\ ops < MaxOps
  /\ ops' = ops + 1
  /\ hostsInput' = Null
  /\ edits' = 0
  /\ UNCHANGED <<variant, loadedAtMount, backend, originalApplications, isLoading, editingApp,
                 editForm, hasUnsavedChanges, dialogHasChanges, deleteDialog, statusToggleDialog, inflight, toggledOff>>

\* ------------------------------------------------------------ card: save all
\* handleSaveChanges up to `await updateSubmissionConfig(applications)`
handleSaveChanges ==
  /\ variant = "card"
  /\ pageInteractive
  /\ hasChanges /\ ~isLoading
  /\ Len(inflight) < MaxInflight
  /\ LET req == [NoRequest EXCEPT !.kind = "saveAll",
                                  !.body = applications,
                                  !.apps = applications]
     IN /\ inflight' = Append(inflight, req)
        /\ toasts' = <<>>
  /\ isLoading' = TRUE
  /\ ops < MaxOps
  /\ ops' = ops + 1
  /\ UNCHANGED <<variant, loadedAtMount, backend, listVars, formVars, deleteDialog,
                 statusToggleDialog, toggledOff>>

\* handleSaveChanges after `await updateSubmissionConfig(applications)`, up to
\* `await loadApps()` inside fetchApplications
saveAllResponse(i, ok) ==
  /\ inflight[i].kind = "saveAll"
  /\ IF ok
     THEN /\ backend' = updateSubmissionConfig(inflight[i].body)
          /\ originalApplications' = inflight[i].apps
          /\ hasChanges' = changeTracking(applications, originalApplications')
          /\ isLoading' = TRUE
          /\ inflight' =
               Append(removeAt(inflight, i), [NoRequest EXCEPT !.kind = "load"])
          /\ toasts' = <<showSuccess("Success", "All changes saved successfully")>>
     ELSE /\ UNCHANGED <<backend, originalApplications, hasChanges>>
          /\ isLoading' = FALSE
          /\ inflight' = removeAt(inflight, i)
          /\ toasts' = <<showError("Save Failed", "Failed to save configuration changes.")>>
  /\ UNCHANGED <<variant, loadedAtMount, ops, applications, formVars, deleteDialog,
                 statusToggleDialog, toggledOff>>

\* a discard that hides the controls and keeps the edited list
discardFlagOnly ==
  /\ variant = "card"
  /\ pageInteractive
  /\ hasChanges /\ ~isLoading
  /\ hasChanges' = FALSE
  /\ toasts' = <<>>
  /\ ops < MaxOps
  /\ ops' = ops + 1
  /\ UNCHANGED <<variant, loadedAtMount, backend, applications, originalApplications,
                 isLoading, formVars, deleteDialog, statusToggleDialog, inflight,
                 toggledOff>>

\* handleDiscardChanges
handleDiscardChanges ==
  /\ variant = "card"
  /\ pageInteractive
  /\ hasChanges /\ ~isLoading
  /\ applications' = originalApplications
  /\ hasChanges' = FALSE
  /\ toasts' = <<>>
  /\ ops < MaxOps
  /\ ops' = ops + 1
  /\ UNCHANGED <<variant, loadedAtMount, backend, originalApplications, isLoading, formVars,
                 deleteDialog, statusToggleDialog, inflight, toggledOff>>

\* ------------------------------------------------------------ specification
Next ==
  \/ \E i \in DOMAIN inflight, ok \in BOOLEAN : fetchResponse(i, ok)
  \/ \E n \in names(applications) : handleDeleteClick(n)
  \/ closeDeleteDialog
  \/ handleDeleteConfirm
  \/ \E i \in DOMAIN inflight, ok \in BOOLEAN : deleteResponse(i, ok)
  \/ handleDeleteConfirmCard
  \/ \E n \in names(applications) : handleToggleStatus(n)
  \/ \E i \in DOMAIN inflight, ok \in BOOLEAN : toggleResponse(i, ok)
  \/ \E n \in names(applications) : handleToggleStatusClick(n)
  \/ closeStatusToggleDialog
  \/ handleToggleStatusConfirm
  \/ \E i \in DOMAIN inflight, ok \in BOOLEAN : putResponse(i, ok)
  \/ \E i \in DOMAIN applications : handleEditInline(i)
  \/ \E f \in EditedFields : \E v \in FieldInputs(f) : handleFormChangeInline(f, v)
  \/ \E t \in SampleTexts : handleHostsChangeInline(t)
  \/ handleCancel
  \/ handleSaveInline
  \/ \E i \in DOMAIN inflight, ok \in BOOLEAN : saveResponseInline(i, ok)
  \/ \E i \in DOMAIN applications : handleEdit(i)
  \/ handleAddNew
  \/ \E f \in EditedFields : \E v \in FieldInputs(f) : handleFormChange(f, v)
  \/ \E t \in SampleTexts : handleHostsChange(t)
  \/ handleClose
  \/ handleSaveTable
  \/ \E i \in DOMAIN inflight, ok \in BOOLEAN : saveResponseTable(i, ok)
  \/ handleSaveCard
  \/ handleSaveChanges
  \/ \E i \in DOMAIN inflight, ok \in BOOLEAN : saveAllResponse(i, ok)
  \/ handleDiscardChanges

Spec == Init /\ [][Next]_vars

\* ------------------------------------------------------------ hosts parsing
\* the characters of a typed hosts text, and of a host the backend may hold
TextChars == {"a", "b", ",", "\n", " "}
HostChars == {"a", ",", " "}

HostsTexts == StringsUpTo(TextChars, MaxTextLen)

\* a blank entry is empty or whitespace only
blank(host) == trim(host) = <<>>
LoadedHostLists ==
  ListsUpTo({h \in StringsUpTo(HostChars, MaxHostLen) : ~blank(h)}, MaxHosts)

\* the list is loaded and the edit form is open on its only record
editingOnly(app) ==
  /\ variant \in Variants
  /\ backend = <<app>>
  /\ loadedAtMount = <<app>>
  /\ applications = <<app>>
  /\ originalApplications = IF variant = "card" THEN <<app>> ELSE <<>>
  /\ isLoading = FALSE
  /\ hasChanges = FALSE
  /\ editingApp = IF variant = "inline" THEN app.appName ELSE Null
  /\ editForm = app
  /\ hasUnsavedChanges = FALSE
  /\ editDialog = IF variant = "inline" THEN ClosedEditDialog
                  ELSE [isOpen |-> TRUE, application |-> app, isNew |-> FALSE]
  /\ dialogHasChanges = FALSE
  /\ deleteDialog = ClosedDeleteDialog
  /\ statusToggleDialog = ClosedToggleDialog
  /\ inflight = <<>>
  /\ hostsInput = Null
  /\ edits = 0
  /\ ops = 0
  /\ toasts = <<>>
  /\ toggledOff = {}

\* the user types any text into the hosts textarea of an open form
InitHosts == editingOnly(AppData(NameA, HostsA, "undefined", "undefined"))

NextHosts ==
  \/ \E t \in HostsTexts : handleHostsChangeInline(t)
  \/ \E t \in HostsTexts : handleHostsChange(t)

SpecHosts == InitHosts /\ [][NextHosts]_vars

\* the user re-enters the text the textarea displays, hosts.join('\n'), for a
\* record whose hosts the backend supplied
InitRoundTrip ==
  \E hosts \in LoadedHostLists :
    editingOnly(AppData(NameA, hosts, "undefined", "undefined"))

retypeHostsInline == handleHostsChangeInline(joinHosts(editForm.hosts))
retypeHosts == handleHostsChange(joinHosts(editForm.hosts))

NextRoundTrip ==
  \/ retypeHostsInline
  \/ retypeHosts

SpecRoundTrip == InitRoundTrip /\ [][NextRoundTrip]_vars

\* ------------------------------------------------------------ claims
\* a host that is non-empty, has no surrounding whitespace and no separator
clean(host) ==
  /\ host # <<>>
  /\ trim(host) = host
  /\ \A k \in DOMAIN host : host[k] \notin Separators

\* the characters of a text or of a hosts list that are neither whitespace
\* nor separators, in order
RECURSIVE letters(_)
letters(text) ==
  IF text = <<>> THEN <<>>
  ELSE IF Head(text) \in Separators \cup Whitespace
       THEN letters(Tail(text))
       ELSE <<Head(text)>> \o letters(Tail(text))

RECURSIVE lettersOf(_)
lettersOf(hosts) ==
  IF hosts = <<>> THEN <<>>
  ELSE letters(Head(hosts)) \o lettersOf(Tail(hosts))

\* C5: whatever text was last typed into the hosts textarea, the form's hosts
\* are filter(trim(split(text, /[,\n]+/)), s => s.length > 0) in all three
\* editors: only non-empty, trimmed, separator-free tokens, in the order of the
\* text.
C5_HostsParsed ==
  hostsInput # Null =>
    /\ editForm.hosts = filterNonEmpty(mapTrim(splitRuns(hostsInput, <<>>)))
    /\ \A k \in DOMAIN editForm.hosts : clean(editForm.hosts[k])
    /\ lettersOf(editForm.hosts) = letters(hostsInput)

\* a text whose comma is directly followed by a newline, typed into the
\* change-tracking dialog, which splits on every separator character
C5_Witness ==
  /\ variant = "table"
  /\ hostsInput = <<"b", ",", "\n">>
  /\ editForm.hosts = << <<"b">> >>

\* C6 as stated: re-entering hosts.join('\n') returns the same list for every
\* list of hosts without blank entries.
C6_RoundTripAnyHosts ==
  [][(retypeHostsInline \/ retypeHosts) => editForm'.hosts = editForm.hosts]_vars

\* C6 amended: re-entering hosts.join('\n') returns the same list when every
\* host is non-empty, has no surrounding whitespace and holds no comma or
\* newline.
C6_RoundTripCleanHosts ==
  [][((retypeHostsInline \/ retypeHosts)
      /\ \A k \in DOMAIN editForm.hosts : clean(editForm.hosts[k]))
     => editForm'.hosts = editForm.hosts]_vars

\* two clean hosts re-entered in the dialog with isFormValid
C6_Witness ==
  /\ variant = "card"
  /\ hostsInput = <<"a", "\n", "a", "a">>
  /\ editForm.hosts = << <<"a">>, <<"a", "a">> >>
  /\ editDialog.application.hosts = editForm.hosts

\* C1: a delete that completes successfully leaves no record of the deleted
\* name in applications, in all three list views; opening the delete dialog
\* and closing it without confirming leave applications, the stored list and
\* the requests in flight as they were.
C1_DeleteRemovesOnlyOnConfirm ==
  [][/\ \A i \in DOMAIN inflight :
          deleteResponse(i, TRUE) =>
            inflight[i].name \notin names(applications')
     /\ handleDeleteConfirmCard =>
          deleteDialog.appName \notin names(applications')
     /\ (closeDeleteDialog \/ \E n \in names(applications) : handleDeleteClick(n))
          => /\ applications' = applications
             /\ backend' = backend
             /\ inflight' = inflight]_vars

\* record a of a two-record list was deleted through the table view
C1_Witness ==
  /\ variant = "table"
  /\ toasts = <<showSuccess("Success", "Application deleted successfully")>>
  /\ names(applications) = {NameB}
  /\ names(backend) = {NameB}

\* C2: a toggle whose backend call succeeds negates the record's effective
\* enabled state, isAppEnabled, in the list the backend stores; cancelling the
\* status dialog changes neither list and sends nothing.
C2_ToggleNegatesEffectiveStatus ==
  [][/\ \A i \in DOMAIN inflight :
          (toggleResponse(i, TRUE) \/ putResponse(i, TRUE)) =>
            isAppEnabled(find(backend', inflight[i].name))
              # isAppEnabled(find(inflight[i].apps, inflight[i].name))
     /\ closeStatusToggleDialog =>
          /\ applications' = applications
          /\ backend' = backend
          /\ inflight' = inflight]_vars

\* C3: no edit form starts a save while its appName or changeNumber is empty
\* or whitespace only: not the inline row editor, not either dialog.
C3_SaveNeedsNameAndChangeNumber ==
  [][(handleSaveInline \/ handleSaveTable \/ handleSaveCard)
       => isFormValid(editForm)]_vars

\* C4: while the Add-New dialog's appName is empty the Create button is
\* disabled and no save is taken, whatever the other fields hold; a save
\* through Add-New appends the form, whose name is not empty.
C4_AddNewNeedsName ==
  [][/\ (variant = "card" /\ editDialog.isOpen /\ editDialog.isNew
           /\ editForm.appName = <<>>)
          => saveDisabled /\ ~handleSaveCard
     /\ (handleSaveCard /\ editDialog.isNew)
          => /\ applications' = Append(applications, editForm)
             /\ applications'[Len(applications')].appName # <<>>]_vars

\* the Add-New dialog with a change number typed and the name still empty
C4_Witness ==
  /\ variant = "card"
  /\ editDialog.isOpen /\ editDialog.isNew
  /\ editForm.appName = <<>>
  /\ editForm.changeNumber = <<"C", "2">>
  /\ ~isLoading

\* a save that completes successfully, of a form opened on a record whose
\* name the list still holds when Save is clicked
savedInline(i) ==
  /\ saveResponseInline(i, TRUE)
  /\ find(inflight[i].apps, inflight[i].name) # NoForm
savedTable(i) ==
  /\ saveResponseTable(i, TRUE)
  /\ find(inflight[i].apps, inflight[i].name) # NoForm
savedCard ==
  /\ handleSaveCard
  /\ ~editDialog.isNew
  /\ find(applications, editDialog.application.appName) # NoForm

\* the after-list holds the form at the position of a record named as r and
\* is the before-list everywhere else
replacedOne(before, after, r, form) ==
  \E k \in DOMAIN before :
    /\ before[k].appName = r.appName
    /\ after = [before EXCEPT ![k] = form]

\* the form is record r with the hosts parsed from text
hostsEdited(r, form, text) ==
  /\ text # Null
  /\ form = [r EXCEPT !.hosts = parseHostsRuns(text)]

\* C7: when a record r of the list is opened, only its hosts text is replaced
\* by T and the save succeeds, the list holds r with hosts = parse of T at r's
\* place and every other record as before.
C7_HostsEditSaved ==
  [][/\ \A i \in DOMAIN inflight :
          LET r == find(inflight[i].apps, inflight[i].name)
          IN (/\ savedInline(i) \/ savedTable(i)
              /\ inflight[i].text # Null
              /\ inflight[i].form = [r EXCEPT !.hosts = inflight[i].form.hosts])
             => /\ hostsEdited(r, inflight[i].form, inflight[i].text)
                /\ replacedOne(inflight[i].apps, applications', r,
                               inflight[i].form)
     /\ LET r == editDialog.application
        IN (/\ savedCard
            /\ hostsInput # Null
            /\ editForm = [r EXCEPT !.hosts = editForm.hosts])
           => /\ hostsEdited(r, editForm, hostsInput)
              /\ replacedOne(applications, applications', r, editForm)]_vars

\* C8: a successful save of an edited record replaces exactly the entry of the
\* record that was opened by the form's values, also when the form changed
\* appName; every other record stays.
C8_SaveReplacesOpenedRecord ==
  [][/\ \A i \in DOMAIN inflight :
          (savedInline(i) \/ savedTable(i)) =>
            replacedOne(inflight[i].apps, applications',
                        find(inflight[i].apps, inflight[i].name),
                        inflight[i].form)
     /\ savedCard =>
          replacedOne(applications, applications', editDialog.application,
                      editForm)]_vars

\* C9: no two records of applications have the same appName.
C9_UniqueNames ==
  \A i, j \in DOMAIN applications :
    applications[i].appName = applications[j].appName => i = j

\* C10: a record toggled to disabled and not deleted since is in the list the
\* backend stores and in every list a later action submits.
C10_ToggledOffRecordKept ==
  /\ toggledOff \subseteq names(backend)
  /\ \A i \in DOMAIN inflight :
       inflight[i].kind \in {"toggle", "delete", "save", "saveAll"} =>
         (toggledOff \ (IF inflight[i].kind = "delete"
                        THEN {inflight[i].name} ELSE {}))
           \subseteq names(inflight[i].body)

\* the request a step has just sent, if it sent one
sentNow ==
  IF Len(inflight') = Len(inflight) + 1
  THEN {inflight'[Len(inflight')]} ELSE {}

\* C11: a click on Delete or on the status control only opens its dialog:
\* it sends nothing and leaves applications and the stored list alone. A
\* request whose list drops a stored record is sent only by handleDeleteConfirm
\* with the delete dialog open for that record, and the card view sends its
\* PUT only from handleToggleStatusConfirm with the status dialog open for that
\* record.
C11_ConfirmationGate ==
  [][/\ \A n \in names(applications) :
          (handleDeleteClick(n) \/ handleToggleStatus(n)
             \/ handleToggleStatusClick(n))
          => /\ inflight' = inflight
             /\ applications' = applications
             /\ backend' = backend
             /\ deleteDialog'.isOpen \/ statusToggleDialog'.isOpen
     /\ \A req \in sentNow :
          /\ req.kind = "put" =>
               /\ handleToggleStatusConfirm
               /\ statusToggleDialog.isOpen
               /\ statusToggleDialog.appName = req.name
          /\ req.kind \in {"toggle", "delete", "save"} =>
               \A n \in names(backend) \ names(req.body) :
                 /\ handleDeleteConfirm
                 /\ deleteDialog.isOpen
                 /\ deleteDialog.appName = n]_vars

\* a field or hosts edit in the inline editor or in either dialog
editStep ==
  \/ \E f \in EditedFields : \E v \in FieldInputs(f) :
       handleFormChangeInline(f, v) \/ handleFormChange(f, v)
  \/ \E t \in SampleTexts : handleHostsChangeInline(t) \/ handleHostsChange(t)

\* C12: the edits of a form and its cancellation (handleCancel, handleClose)
\* touch only the working copy: each leaves applications, the record the
\* dialog was opened on, the manager's saved copy and the stored list as they
\* were and sends no request; after the cancellation no form is open.
C12_CancelDiscardsWorkingCopy ==
  [][/\ (editStep \/ handleCancel \/ handleClose)
          => /\ applications' = applications
             /\ originalApplications' = originalApplications
             /\ backend' = backend
             /\ inflight' = inflight
     /\ editStep => editDialog' = editDialog /\ editingApp' = editingApp
     /\ (handleCancel \/ handleClose)
          => editingApp' = Null /\ ~editDialog'.isOpen]_vars

\* the change-tracking dialog was closed after its name field was retyped:
\* the stale working copy holds the new name, the list the loaded one
C12_Witness ==
  /\ variant = "table"
  /\ ~editDialog.isOpen
  /\ editForm # NoForm
  /\ editForm.appName = NameB
  /\ names(applications) = {NameA}
  /\ applications = backend
  /\ inflight = <<>>
  /\ ops = 0

\* C13: an edit session ends with no form open once its save has completed,
\* successfully or not, or it was cancelled; and the edit action on a listed
\* record opens the form on that record.
C13_EditSessionLifecycle ==
  [][/\ (\/ \E i \in DOMAIN inflight, ok \in BOOLEAN :
              saveResponseInline(i, ok) \/ saveResponseTable(i, ok)
         \/ handleSaveCard
         \/ handleCancel
         \/ handleClose)
          => editingApp' = Null /\ ~editDialog'.isOpen
     /\ \A i \in DOMAIN applications :
          /\ handleEditInline(i) =>
               /\ editingApp' = applications[i].appName
               /\ editForm' = applications[i]
          /\ handleEdit(i) =>
               /\ editDialog'.isOpen
               /\ editForm' = applications[i]]_vars

\* the load requests awaiting their response
loadsPending(reqs) == {k \in DOMAIN reqs : reqs[k].kind = "load"}

\* C14: the component mounts with one load request pending and sends no
\* other before a save-all. When the mount's load succeeds, applications is
\* the stored list (inline, table: its records whose disabled is not true;
\* card: all of it) and nothing is notified; when it fails, one error is
\* notified and applications is empty. Either way isLoading ends false.
C14_MountLoad ==
  [][/\ \A i \in DOMAIN inflight :
          /\ (ops = 0 /\ fetchResponse(i, TRUE)) =>
               /\ applications' =
                    IF variant = "card" THEN backend
                    ELSE SelectSeq(backend, LAMBDA app : app.disabled # "true")
               /\ toasts' = <<>>
               /\ ~isLoading'
          /\ (ops = 0 /\ fetchResponse(i, FALSE)) =>
               /\ applications' = <<>>
               /\ toasts' = <<showError("Failed to Load Applications",
                                        "Unable to fetch application data.")>>
               /\ ~isLoading'
     /\ ops = 0 => Cardinality(loadsPending(inflight')) <=
                     Cardinality(loadsPending(inflight))]_vars

\* the mount's load failed although the backend holds two records
C14_Witness ==
  /\ ops = 0
  /\ Len(backend) = 2
  /\ applications = <<>>
  /\ ~isLoading
  /\ inflight = <<>>
  /\ toasts = <<showError("Failed to Load Applications",
                          "Unable to fetch application data.")>>

\* C15: handleSaveChanges submits the whole current list; its success stores
\* that list and is the only thing that requests a reload; when the reload
\* succeeds too, applications and originalApplications are the reloaded list
\* and hasChanges is false. When the submission fails no reload is requested,
\* both lists and the stored list stay and an error is notified.
C15_SaveAllThenReload ==
  [][/\ handleSaveChanges =>
          /\ sentNow # {}
          /\ \A req \in sentNow :
               req.kind = "saveAll" /\ req.body = applications
     /\ \A i \in DOMAIN inflight :
          /\ saveAllResponse(i, TRUE) =>
               /\ backend' = inflight[i].body
               /\ Cardinality(loadsPending(inflight')) =
                    Cardinality(loadsPending(inflight)) + 1
               /\ toasts' = <<showSuccess("Success",
                                          "All changes saved successfully")>>
          /\ saveAllResponse(i, FALSE) =>
               /\ Cardinality(loadsPending(inflight')) =
                    Cardinality(loadsPending(inflight))
               /\ applications' = applications
               /\ originalApplications' = originalApplications
               /\ backend' = backend
               /\ ~isLoading'
               /\ toasts' = <<showError("Save Failed",
                                        "Failed to save configuration changes.")>>
          /\ (variant = "card" /\ ops > 0 /\ fetchResponse(i, TRUE)) =>
               /\ applications' = backend
               /\ originalApplications' = backend
               /\ ~hasChanges'
               /\ ~isLoading'
     /\ Cardinality(loadsPending(inflight')) >
          Cardinality(loadsPending(inflight))
          => \E i \in DOMAIN inflight : saveAllResponse(i, TRUE)]_vars

\* a record added through Add-New was saved with the list and reloaded
C15_Witness ==
  /\ variant = "card"
  /\ \E k \in DOMAIN backend : backend[k].changeNumber = <<"C", "2">>
  /\ inflight = <<>>
  /\ applications = backend
  /\ originalApplications = backend
  /\ ~hasChanges
  /\ ~isLoading
  /\ toasts = <<>>

\* the status rule of the specification: appStatus decides when the record
\* has one, the disabled flag only when it has none
effectivelyEnabled(app) ==
  IF app.appStatus # "undefined"
  THEN app.appStatus = "enabled"
  ELSE app.disabled # "true"

\* C16: every place that decides whether a record is enabled follows that
\* rule: the load filter and the view filter after a toggle of the inline and
\* table views, the toggle direction of the card view, and the card view's
\* badge and switch (isAppEnabled).
C16_AppStatusPreferred ==
  [][/\ \A i \in DOMAIN inflight :
          /\ (variant # "card" /\ fetchResponse(i, TRUE)) =>
               applications' = SelectSeq(backend, effectivelyEnabled)
          /\ toggleResponse(i, TRUE) =>
               applications' = SelectSeq(inflight[i].body, effectivelyEnabled)
     /\ \A n \in names(applications) :
          handleToggleStatusClick(n) =>
            statusToggleDialog'.newStatus =
              IF effectivelyEnabled(find(applications, n))
              THEN "disabled" ELSE "enabled"
     /\ \A k \in DOMAIN applications :
          isAppEnabled(applications[k]) = effectivelyEnabled(applications[k])]_vars

\* a step that sends exactly one request and settles none
sendsOne == Len(inflight') = Len(inflight) + 1 /\ Cardinality(sentNow) = 1

\* a response that reports the failure of a mutating request
failedResponse(i) ==
  \/ saveResponseInline(i, FALSE)
  \/ saveResponseTable(i, FALSE)
  \/ deleteResponse(i, FALSE)
  \/ toggleResponse(i, FALSE)
  \/ putResponse(i, FALSE)
  \/ saveAllResponse(i, FALSE)

\* C17 as stated: in every view each edit save, each confirmed delete and
\* each toggle sends exactly one request, and a failed request is not sent
\* again.
C17_OneRequestPerAction ==
  [][/\ (\/ handleSaveInline
         \/ handleSaveTable
         \/ handleSaveCard
         \/ handleDeleteConfirm
         \/ handleDeleteConfirmCard
         \/ \E n \in names(applications) : handleToggleStatus(n)
         \/ (handleToggleStatusConfirm
               /\ find(applications, statusToggleDialog.appName) # NoForm))
          => sendsOne
     /\ \A i \in DOMAIN inflight :
          failedResponse(i) => Len(inflight') = Len(inflight) - 1]_vars

\* C17 amended: in the inline and table views each edit save, each confirmed
\* delete and each toggle sends exactly one request, and so does each
\* confirmed toggle and each save-all of the card view; an edit save, an
\* Add-New save and a confirmed delete of the card view send nothing and
\* leave the stored list alone; a failed request is not sent again.
C17_OneRequestPerSubmittingAction ==
  [][/\ (\/ handleSaveInline
         \/ handleSaveTable
         \/ handleDeleteConfirm
         \/ \E n \in names(applications) : handleToggleStatus(n)
         \/ (handleToggleStatusConfirm
               /\ find(applications, statusToggleDialog.appName) # NoForm)
         \/ handleSaveChanges)
          => sendsOne
     /\ (handleSaveCard \/ handleDeleteConfirmCard)
          => inflight' = inflight /\ backend' = backend
     /\ \A i \in DOMAIN inflight :
          failedResponse(i) => Len(inflight') = Len(inflight) - 1]_vars

\* the card view has saved an edit locally: nothing is pending and the stored
\* list does not have the change
C17_Witness ==
  /\ variant = "card"
  /\ toasts = <<showSuccess("Success", "Application updated successfully")>>
  /\ inflight = <<>>
  /\ applications # backend
  /\ hasChanges

\* ------------------------------------------------------------ C18
errorsOf(ts) == {k \in DOMAIN ts : ts[k][1] = "error"}
successesOf(ts) == {k \in DOMAIN ts : ts[k][1] = "success"}

\* C18: when the backend call of a mutating action fails, the handler still
\* runs to its end (the request leaves the pending ones), the step shows
\* exactly one error notification and no success notification, and the flags
\* the handler raised are reset: isLoading is false after a failed save of
\* one record or of the whole list, the delete dialog is closed after a
\* failed delete, the status dialog is closed after a failed status change.
C18_FailureCaughtInHandler ==
  [][\A i \in DOMAIN inflight :
       /\ failedResponse(i) =>
            /\ Len(inflight') = Len(inflight) - 1
            /\ Cardinality(errorsOf(toasts')) = 1
            /\ successesOf(toasts') = {}
            /\ backend' = backend
       /\ (saveResponseInline(i, FALSE) \/ saveResponseTable(i, FALSE)
             \/ saveAllResponse(i, FALSE)) => ~isLoading'
       /\ deleteResponse(i, FALSE) => ~deleteDialog'.isOpen
       /\ putResponse(i, FALSE) => ~statusToggleDialog'.isOpen]_vars

\* C18 witness: the card view after a rejected save-all: one error
\* notification, the spinner gone, the unsaved changes still there.
C18_Witness ==
  /\ variant = "card"
  /\ toasts = <<showError("Save Failed", "Failed to save configuration changes.")>>
  /\ ~isLoading
  /\ inflight = <<>>
  /\ hasChanges
  /\ applications # backend

\* ------------------------------------------------------------ C19
\* no record of the list holds an empty host string
noEmptyHost(apps) ==
  \A k \in DOMAIN apps : \A j \in DOMAIN apps[k].hosts : apps[k].hosts[j] # <<>>
\* no record of the list holds an empty or whitespace-only host string
noBlankHost(apps) ==
  \A k \in DOMAIN apps : \A j \in DOMAIN apps[k].hosts : ~blank(apps[k].hosts[j])
\* the records of `applications` and the open working copy, if any
shownRecords == applications \o (IF editForm = NoForm THEN <<>> ELSE <<editForm>>)

\* C19 as stated: when no loaded record has an empty host string, no record
\* of `applications` and no edit-form working copy ever has an empty or
\* whitespace-only host string.
C19_NoBlankHostIfNoneEmpty ==
  noEmptyHost(loadedAtMount) => noBlankHost(shownRecords)

\* C19 with the assumption the conclusion needs: when no loaded record has
\* an empty or whitespace-only host string, no record of `applications` and
\* no edit-form working copy ever has one, whatever hosts text is typed.
C19_NoBlankHostIfNoneBlank ==
  noBlankHost(loadedAtMount) => noBlankHost(shownRecords)

\* C19 witness: a clean list was loaded, the hosts text "h3,, " was typed
\* into the form, and the record saved from it holds the one host "h3".
C19_Witness ==
  /\ noBlankHost(loadedAtMount)
  /\ loadedAtMount # <<>>
  /\ hostsInput = Null
  /\ inflight = <<>>
  /\ \E k \in DOMAIN applications :
       /\ applications[k].hosts = << <<"h", "3">> >>
       /\ \E j \in DOMAIN backend : backend[j] = applications[k]

\* ------------------------------------------------------------ C20
\* C20: in the inline and table views a save, a toggle or a delete sends its
\* request without touching `applications`, and when the backend rejects the
\* request the handler finishes with `applications` as it was: the list is
\* replaced on a successful response only.
C20_RejectedRequestKeepsList ==
  [][/\ \A n \in names(applications) :
          (variant \in {"inline", "table"} /\ handleToggleStatus(n))
            => applications' = applications
     /\ (handleSaveInline \/ handleSaveTable \/ handleDeleteConfirm)
          => applications' = applications
     /\ \A i \in DOMAIN inflight :
          (/\ variant \in {"inline", "table"}
           /\ \/ saveResponseInline(i, FALSE)
              \/ saveResponseTable(i, FALSE)
              \/ toggleResponse(i, FALSE)
              \/ deleteResponse(i, FALSE))
            => /\ applications' = applications
               /\ backend' = backend]_vars

\* C20 witness: the table view after a rejected delete: the error is shown,
\* the dialog is closed and the list still shows what the backend stores.
C20_Witness ==
  /\ variant = "table"
  /\ toasts = <<showError("Delete Failed", "Failed to delete the application.")>>
  /\ ~deleteDialog.isOpen
  /\ inflight = <<>>
  /\ Len(applications) = 2
  /\ applications = backend

\* ------------------------------------------------------------ C21
\* a request of the inline or table view that changes the stored list
mutatingKinds == {"save", "toggle", "delete"}
\* the response that completes the last pending request, successfully
lastSucceeds(i) ==
  /\ variant \in {"inline", "table"}
  /\ Len(inflight) = 1
  /\ \/ saveResponseInline(i, TRUE)
     \/ saveResponseTable(i, TRUE)
     \/ toggleResponse(i, TRUE)
     \/ deleteResponse(i, TRUE)

\* C21: in the inline and table views, once every request has been answered
\* successfully the displayed list reflects all of them, also when two of
\* them overlapped: no record disabled by a toggle is displayed, the record
\* deleted last is not displayed, and the displayed list is the enabled part
\* of the list the backend received last.
C21_OverlappingActionsBothApplied ==
  [][\A i \in DOMAIN inflight :
       lastSucceeds(i) =>
         /\ toggledOff' \cap names(applications') = {}
         /\ (inflight[i].kind = "delete" =>
               inflight[i].name \notin names(applications'))
         /\ applications' = filterEnabled(backend')]_vars

\* ------------------------------------------------------------ C22
\* the records of a list
recordsOf(apps) == {apps[k] : k \in DOMAIN apps}

\* C22: in the inline and table views the list a save, a toggle or a delete
\* sends to the backend still holds every record that was disabled when the
\* list was loaded, unless the request deletes a record of that name.
C22_SentListKeepsHiddenRecords ==
  [][\A req \in sentNow :
       (variant \in {"inline", "table"} /\ req.kind \in mutatingKinds) =>
         \A r \in recordsOf(loadedAtMount) :
           (r.disabled = "true"
              /\ ~(req.kind = "delete" /\ req.name = r.appName))
             => r \in recordsOf(req.body)]_vars

\* ------------------------------------------------------------ C23
\* C23: in the inline view hasUnsavedChanges is true only while a record is
\* being edited: editingApp === null implies hasUnsavedChanges === false.
C23_UnsavedOnlyWhileEditing ==
  (variant = "inline" /\ editingApp = Null) => ~hasUnsavedChanges

\* ------------------------------------------------------------ C24
\* C24: in the inline view, whenever a record is being edited the list holds
\* a record of that name, so the row with the Save and Cancel buttons exists.
C24_EditedRecordListed ==
  (variant = "inline" /\ editingApp # Null) => editingApp \in names(applications)

\* ------------------------------------------------------------ C25
\* C25: in the card view hasChanges is true exactly when `applications`
\* differs from `originalApplications`, after any sequence of edit, add,
\* delete, toggle, discard and save-all actions.
C25_HasChangesIffListsDiffer ==
  variant = "card" => (hasChanges <=> applications # originalApplications)

\* C25 witness: a card was deleted locally after the load: the list is
\* shorter than the loaded copy and the unsaved-changes controls are shown.
C25_Witness ==
  /\ variant = "card"
  /\ toasts = <<showSuccess("Success", "Application deleted successfully")>>
  /\ hasChanges
  /\ Len(applications) < Len(originalApplications)
  /\ originalApplications = backend

\* ------------------------------------------------------------ C26
\* the list with the status fields of every record blanked
withoutStatus(apps) ==
  [k \in DOMAIN apps |->
     [apps[k] EXCEPT !.disabled = "undefined", !.appStatus = "undefined"]]

\* C26: in the card view a successful status toggle leaves hasChanges as it
\* was, and apart from the disabled/appStatus fields of the records of the
\* toggled name it leaves `applications` and `originalApplications` as they
\* were.
C26_ToggleKeepsChangeTracking ==
  [][\A i \in DOMAIN inflight :
       putResponse(i, TRUE) =>
         /\ hasChanges' = hasChanges
         /\ withoutStatus(applications') = withoutStatus(applications)
         /\ withoutStatus(originalApplications') = withoutStatus(originalApplications)
         /\ \A k \in DOMAIN applications :
              applications[k].appName # inflight[i].name
                => applications'[k] = applications[k]
         /\ \A k \in DOMAIN originalApplications :
              originalApplications[k].appName # inflight[i].name
                => originalApplications'[k] = originalApplications[k]]_vars

\* ------------------------------------------------------------ C27
\* C27: in the card view handleDiscardChanges makes `applications` equal to
\* `originalApplications`, leaves `originalApplications` and the backend
\* unchanged, sends no request, and a second discard would change nothing:
\* the list it would restore is the list already shown.
C27_DiscardRestoresOriginal ==
  [][handleDiscardChanges =>
       /\ applications' = originalApplications
       /\ originalApplications' = originalApplications
       /\ inflight' = inflight
       /\ backend' = backend
       /\ ~hasChanges'
       /\ applications' = originalApplications']_vars

\* C27 witness: a change number typed in the dialog was saved into the local
\* list and then discarded: the form still holds the typed value, the list
\* is the loaded one again.
C27_Witness ==
  /\ variant = "card"
  /\ ops = 2
  /\ editForm # NoForm
  /\ editForm.changeNumber = <<"C", "2">>
  /\ ~editDialog.isOpen
  /\ applications # <<>>
  /\ \A k \in DOMAIN applications : applications[k].changeNumber = <<"C", "1">>
  /\ applications = originalApplications
  /\ backend = loadedAtMount
  /\ ~hasChanges
  /\ inflight = <<>>
  /\ toasts = <<>>

\* ------------------------------------------------------------ C28
\* C28: in the inline and table views the displayed list never holds a
\* disabled record: every record of `applications` has a falsy `disabled`.
C28_NoDisabledRecordDisplayed ==
  variant \in {"inline", "table"} =>
    \A k \in DOMAIN applications : falsy(applications[k].disabled)

\* C28 witness: a record was disabled by a toggle that the backend accepted
\* and has left the displayed list, which still shows the other record.
C28_Witness ==
  /\ variant = "table"
  /\ toasts = <<showSuccess("Status Updated", "Application disabled successfully")>>
  /\ Len(backend) = 2
  /\ Len(applications) = 1
  /\ \E k \in DOMAIN backend : backend[k].disabled = "true"
  /\ inflight = <<>>

\* ------------------------------------------------------------ C29
\* C29: each time the edit dialog is opened, on a record of the list or on
\* the empty record of Add New, its working copy equals that record field by
\* field, whatever was typed in an earlier session.
C29_OpenedFormIsTheRecord ==
  [][/\ \A i \in DOMAIN applications :
          handleEdit(i) => (editDialog'.isOpen /\ editForm' = applications[i])
     /\ handleAddNew => (editDialog'.isOpen /\ editForm' = newApp)]_vars

\* C29 witness: the change number of record b was edited and saved in one
\* session; the dialog then opened on record a shows a's own change number.
C29_Witness ==
  /\ variant = "table"
  /\ editDialog.isOpen
  /\ edits = 0
  /\ editForm = editDialog.application
  /\ editForm.appName = NameA
  /\ editForm.changeNumber = <<"C", "1">>
  /\ \E k \in DOMAIN applications :
       /\ applications[k].appName = NameB
       /\ applications[k].changeNumber = <<"C", "2">>
  /\ applications = backend
  /\ inflight = <<>>

\* ------------------------------------------------------------ C30
\* disabled === (appStatus === 'disabled') with appStatus being newStatus
statusAgrees(app, newStatus) ==
  /\ newStatus \in {"enabled", "disabled"}
  /\ app.appStatus = newStatus
  /\ app.disabled = (IF app.appStatus = "disabled" THEN "true" ELSE "false")

\* C30: in the card view the record sent by a confirmed toggle carries the
\* status the confirmation dialog shows, with `disabled` agreeing with
\* appStatus; after a successful response every record of the toggled name
\* in `applications` and in `originalApplications` carries that same status,
\* again with `disabled` agreeing.
C30_StatusFieldsAgree ==
  [][/\ \A req \in sentNow :
          req.kind = "put" =>
            /\ handleToggleStatusConfirm
            /\ req.newStatus = statusToggleDialog.newStatus
            /\ req.name = statusToggleDialog.appName
            /\ Len(req.body) = 1
            /\ req.body[1].appName = req.name
            /\ statusAgrees(req.body[1], req.newStatus)
     /\ \A i \in DOMAIN inflight :
          putResponse(i, TRUE) =>
            /\ \A k \in DOMAIN applications' :
                 applications'[k].appName = inflight[i].name
                   => statusAgrees(applications'[k], inflight[i].newStatus)
            /\ \A k \in DOMAIN originalApplications' :
                 originalApplications'[k].appName = inflight[i].name
                   => statusAgrees(originalApplications'[k], inflight[i].newStatus)]_vars

\* C30 witness: a record stored as disabled without an appStatus was enabled
\* by a confirmed toggle: it now reads disabled false, appStatus enabled in
\* the list, in the original copy and in the backend.
C30_Witness ==
  /\ variant = "card"
  /\ toasts = <<showSuccess("Success", "Application enabled successfully")>>
  /\ loadedAtMount # <<>>
  /\ loadedAtMount[1].disabled = "true"
  /\ loadedAtMount[1].appStatus = "undefined"
  /\ applications # <<>>
  /\ applications[1].disabled = "false"
  /\ applications[1].appStatus = "enabled"
  /\ applications = originalApplications
  /\ applications = backend
  /\ inflight = <<>>

====
